---- MODULE Spec2Model ----
(***************************************************************************)
(* ExcelToCSVProcessor (src/app.py): the identity-resolution and           *)
(* normalization engine that turns the rows of the four processing sheets  *)
(* into a deduplicated lot registry and a stage-tagged record log.         *)
(*                                                                         *)
(* Text is a sequence of one-character strings.  Numbers are fixed-point   *)
(* integers in units of 1/Scale, so that rounding to four fractional       *)
(* digits and truncation to an integer are real conversions.  A cell is a  *)
(* record [t, s, n]: t is its type ("nan", "str", "num", "date"), s its    *)
(* text, n its number.  uuid.uuid4() is a fresh-name generator: a counter. *)
(***************************************************************************)
EXTENDS Integers, Sequences, FiniteSets, TLC

VARIABLES
    pc,                        \* position in main / process_excel_file
    sheet_names,               \* excel_file.sheet_names (the processing sheets in it)
    sheet_pos,                 \* position of the loop over sheet_mapping.items()
    ncols,                     \* len(row) of the sheet being processed
    index,                     \* loop variable index of df.iterrows(), -1 before the first row
    row,                       \* loop variable row of df.iterrows()
    lots_dict,                 \* self.lots_dict
    lots_data,                 \* self.results['lots_data']
    processing_records_data,   \* self.results['processing_records_data']
    sheets_processed,          \* self.results['sheets_processed']
    errors,                    \* self.results['errors']
    validation_issues,         \* self.results['validation_issues']
    result,                    \* what process_excel_file returned
    csv_files,                 \* keys of the dict generate_csv_files returned
    next_uuid,                 \* number of uuid.uuid4() calls so far
    rows_read                  \* data rows read from the workbook so far

vars == <<pc, sheet_names, sheet_pos, ncols, index, row, lots_dict, lots_data,
          processing_records_data, sheets_processed, errors, validation_issues,
          result, csv_files, next_uuid, rows_read>>

----------------------------------------------------------------------------
(* Bounds of the model *)

MaxRows == 2        \* data rows read from the sheets of one workbook
MaxChecked == 2     \* lots, and records, handed to the validator on its own
MaxLotId == 3       \* lot identifiers in the collections handed to the validator

(* Fixed-point unit: 1 is Scale units, so 4 fractional digits are 10 units *)
Scale == 100000

----------------------------------------------------------------------------
(* Text *)

Digits == {"0", "1", "2", "3", "4", "5", "6", "7", "8", "9"}
Whitespace == {" "}

DigitVal(c) ==
    CASE c = "0" -> 0 [] c = "1" -> 1 [] c = "2" -> 2 [] c = "3" -> 3
      [] c = "4" -> 4 [] c = "5" -> 5 [] c = "6" -> 6 [] c = "7" -> 7
      [] c = "8" -> 8 [] c = "9" -> 9

SetMin(S) == CHOOSE i \in S : \A j \in S : i <= j
SetMax(S) == CHOOSE i \in S : \A j \in S : i >= j

(* the text between the first and the last position of `kept` *)
Between(s, kept) == IF kept = {} THEN <<>> ELSE SubSeq(s, SetMin(kept), SetMax(kept))

(* str.strip() *)
Strip(s) == Between(s, {i \in 1..Len(s) : s[i] \notin Whitespace})

(* the number of occurrences of sep before position i *)
SepsBefore(s, sep, i) == Cardinality({p \in 1..(i - 1) : s[p] = sep})

(* str.split(sep) for a one-character separator: part j lies between the *)
(* (j-1)-th and the j-th occurrence of sep                                *)
Split(s, sep) ==
    [j \in 1..(SepsBefore(s, sep, Len(s) + 1) + 1) |->
        Between(s, {i \in 1..Len(s) : s[i] # sep /\ SepsBefore(s, sep, i) = j - 1})]

(* str.zfill(width), for text without a sign *)
ZFill(s, width) ==
    IF Len(s) >= width THEN s
    ELSE [i \in 1..width |-> IF i <= width - Len(s) THEN "0"
                              ELSE s[i - (width - Len(s))]]

Contains(s, c) == \E i \in 1..Len(s) : s[i] = c

IsDigits(s) == \A i \in 1..Len(s) : s[i] \in Digits

(* the number the first k digits of s write *)
RECURSIVE ToNatUpTo(_, _)
ToNatUpTo(s, k) ==
    IF k = 0 THEN 0 ELSE 10 * ToNatUpTo(s, k - 1) + DigitVal(s[k])

ToNat(s) == ToNatUpTo(s, Len(s))

RECURSIVE Pow10(_)
Pow10(k) == IF k = 0 THEN 1 ELSE 10 * Pow10(k - 1)

(* str.lower() on the letters of the model's alphabet *)
LowerChar(c) == IF c = "L" THEN "l" ELSE c
Lower(s) == [i \in 1..Len(s) |-> LowerChar(s[i])]

----------------------------------------------------------------------------
(* Cells and optional values *)

(* t = "nan": an empty cell; "str": text s; "int" / "num": an integer / a  *)
(* float of n units; "date": a datetime whose date is s (YYYY-MM-DD)      *)
NaN == [t |-> "nan", s |-> <<>>, n |-> 0]
Str(s) == [t |-> "str", s |-> s, n |-> 0]
IntCell(n) == [t |-> "int", s |-> <<>>, n |-> n * Scale]
Num(n) == [t |-> "num", s |-> <<>>, n |-> n]
Date(s) == [t |-> "date", s |-> s, n |-> 0]

NoText == [some |-> FALSE, v |-> <<>>]
Text(s) == [some |-> TRUE, v |-> s]
NoInt == [some |-> FALSE, v |-> 0]
Int_(n) == [some |-> TRUE, v |-> n]

(* pd.isna(value) or value == "" or value is None *)
IsBlank(c) == c.t = "nan" \/ (c.t = "str" /\ c.s = <<>>)

(* Python truthiness of an optional text: None and "" are falsy *)
Truthy(o) == o.some /\ o.v # <<>>

(* row.iloc[k], k counted from 0 *)
Iloc(r, k) == r[k + 1]

----------------------------------------------------------------------------
(* Field Normalizer *)

(* datetime.strftime('%Y-%m-%d') of a value whose date is s *)
StrFTime(s) == s

(* an ISO date YYYY-MM-DD, whose parts between the dashes are `parts` *)
IsoDate(s, parts) ==
    IF /\ Len(parts) = 3
       /\ Len(parts[1]) = 4 /\ Len(parts[2]) = 2 /\ Len(parts[3]) = 2
       /\ \A i \in 1..3 : IsDigits(parts[i])
    THEN Text(s) ELSE NoText

(* pd.to_datetime(text, errors='coerce'): the library's generic parser, on *)
(* the texts of the model: an ISO date YYYY-MM-DD parses, other text is NaT *)
PdToDatetime(s) == IsoDate(s, Split(s, "-"))

(* day, month, year = parts: f"{year}-{month.zfill(2)}-{day.zfill(2)}" *)
Reassemble(has_sep, parts) ==
    IF has_sep /\ Len(parts) = 3 /\ Len(parts[1]) = 2
    THEN Text(parts[3] \o <<"-">> \o ZFill(parts[2], 2) \o <<"-">> \o ZFill(parts[1], 2))
    ELSE NoText

(* the DD<sep>MM<sep>YYYY rule of normalize_date: NoText when it does not apply *)
DayFirst(s, sep) == Reassemble(Contains(s, sep), Split(s, sep))

(* the first of the three attempts that yields a date *)
FirstDate(a, b, c) == IF a.some THEN a ELSE IF b.some THEN b ELSE c

normalize_date(date_value) ==
    IF IsBlank(date_value) THEN NoText
    ELSE IF date_value.t = "date" THEN Text(StrFTime(date_value.s))
    ELSE IF date_value.t = "str"
    THEN FirstDate(DayFirst(Strip(date_value.s), "-"),
                   DayFirst(Strip(date_value.s), "/"),
                   PdToDatetime(Strip(date_value.s)))
    \* a number is taken as nanoseconds since the epoch
    ELSE Text(<<"1", "9", "7", "0", "-", "0", "1", "-", "0", "1">>)

DigitChar(d) == <<"0", "1", "2", "3", "4", "5", "6", "7", "8", "9">>[d + 1]

RECURSIVE NatToText(_)
NatToText(n) ==
    IF n < 10 THEN <<DigitChar(n)>> ELSE NatToText(n \div 10) \o <<DigitChar(n % 10)>>

DropTrailingZeros(s) ==
    SubSeq(s, 1, SetMax({i \in 1..Len(s) : i = 1 \/ s[i] # "0"}))

(* str(value) of a cell's value, for non-negative numbers *)
PyStr(c) ==
    CASE c.t = "str" -> c.s
      [] c.t = "int" -> NatToText(c.n \div Scale)
      [] c.t = "num" -> NatToText(c.n \div Scale) \o <<".">>
                        \o DropTrailingZeros(ZFill(NatToText(c.n % Scale), 5))
      [] c.t = "date" -> c.s \o <<" ", "0", "0", ":", "0", "0", ":", "0", "0">>
      [] OTHER -> <<"n", "a", "n">>

(* normalize_lot_number without .strip() *)
normalize_lot_number_unstripped(lot_value) ==
    IF IsBlank(lot_value) THEN NoText ELSE Text(PyStr(lot_value))

normalize_lot_number(lot_value) ==
    IF IsBlank(lot_value) THEN NoText ELSE Text(Strip(PyStr(lot_value)))

NotANumber == [ok |-> FALSE, v |-> 0]

(* s[:n] *)
Prefix(s, n) == SubSeq(s, 1, IF Len(s) < n THEN Len(s) ELSE n)

(* the value of digits ip, a point and digits fp0 *)
ParseDigits(ip, fp0) ==
    IF IsDigits(ip) /\ IsDigits(fp0) /\ Len(ip) + Len(fp0) > 0
    THEN [ok |-> TRUE,
          v |-> ToNat(ip) * Scale
                + ToNat(Prefix(fp0, 5)) * Pow10(5 - Len(Prefix(fp0, 5)))]
    ELSE NotANumber

ParseParts(parts) ==
    IF Len(parts) = 1 THEN ParseDigits(parts[1], <<>>)
    ELSE IF Len(parts) = 2 THEN ParseDigits(parts[1], parts[2])
    ELSE NotANumber

Negated(f) == IF f.ok THEN [ok |-> TRUE, v |-> -f.v] ELSE f

ParseSigned(s) ==
    IF s # <<>> /\ Head(s) = "-" THEN Negated(ParseParts(Split(Tail(s), ".")))
    ELSE ParseParts(Split(s, "."))

(* float(text): [ok, v], v in units of 1/Scale; text is [-]digits[.digits], *)
(* fractional digits past the fifth are dropped                            *)
ParseFloat(text) == ParseSigned(Strip(text))

(* float(value): a datetime or unparseable text raises *)
ToFloat(c) ==
    CASE c.t \in {"int", "num"} -> [ok |-> TRUE, v |-> c.n]
      [] c.t = "str" -> ParseFloat(c.s)
      [] OTHER -> NotANumber

(* q tens and r units, to the nearest ten, a tie to the even neighbour *)
RoundTens(q, r) == IF r < 5 \/ (r = 5 /\ q % 2 = 0) THEN 10 * q ELSE 10 * (q + 1)

(* round(x, 4): 4 fractional digits are tens of units *)
Round4(n) == RoundTens(n \div 10, n % 10)

(* int(x): truncation toward zero, to a whole number *)
Trunc(n) == IF n >= 0 THEN n \div Scale ELSE -((-n) \div Scale)

(* normalize_numeric once float(value) is f *)
NumericOf(f, default) ==
    IF ~f.ok THEN default
    ELSE IF f.v % Scale = 0 THEN f.v
    ELSE Round4(f.v)

normalize_numeric(value, default) ==
    IF IsBlank(value) THEN default ELSE NumericOf(ToFloat(value), default)

(* normalize_integer once float(value) is f *)
IntegerOf(f, default) == IF ~f.ok THEN default ELSE Int_(Trunc(f.v))

normalize_integer(value, default) ==
    IF IsBlank(value) THEN default ELSE IntegerOf(ToFloat(value), default)

----------------------------------------------------------------------------
(* Lot Registry *)

(* uuid.uuid4() when `used` identifiers have been drawn: a fresh one *)
Uuid4(used) == used + 1

(* the first lot of the list with this lot_number (the loop of add_lot), 0 if none *)
FirstWithNumber(data, lot_number) ==
    IF \E i \in 1..Len(data) : data[i].lot_number = lot_number
    THEN CHOOSE i \in 1..Len(data) :
             /\ data[i].lot_number = lot_number
             /\ \A j \in 1..(i - 1) : data[j].lot_number # lot_number
    ELSE 0

(* add_lot that forgets to append the new lot to results['lots_data'] *)
add_lot_unregistered(dict, data, lot_number, lot_weight, used) ==
    IF lot_number \notin DOMAIN dict
    THEN [lots_dict |-> dict @@ (lot_number :> Len(data) + 1),
          lots_data |-> data,
          lot_id |-> Uuid4(used),
          drawn |-> 1]
    ELSE [lots_dict |-> dict,
          lots_data |-> data,
          lot_id |-> Uuid4(used),
          drawn |-> 1]

(* add_lot without the "if lot_number not in self.lots_dict" test *)
add_lot_no_dedup(dict, data, lot_number, lot_weight, used) ==
    [lots_dict |-> (lot_number :> Len(data) + 1) @@ dict,
     lots_data |-> Append(data, [lot_id |-> Uuid4(used), lot_number |-> lot_number,
                                 lot_weight |-> lot_weight, status |-> "active"]),
     lot_id |-> Uuid4(used),
     drawn |-> 1]

(* add_lot that keeps the first weight it saw *)
add_lot_first_wins(dict, data, lot_number, lot_weight, used) ==
    IF lot_number \notin DOMAIN dict
    THEN [lots_dict |-> dict @@ (lot_number :> Len(data) + 1),
          lots_data |-> Append(data, [lot_id |-> Uuid4(used), lot_number |-> lot_number,
                                      lot_weight |-> lot_weight, status |-> "active"]),
          lot_id |-> Uuid4(used),
          drawn |-> 1]
    ELSE [lots_dict |-> dict,
          lots_data |-> data,
          lot_id |-> data[dict[lot_number]].lot_id,
          drawn |-> 0]

(* add_lot that rebuilds the lot, with a new identifier, when the weight differs *)
add_lot_reissue(dict, data, lot_number, lot_weight, used) ==
    IF lot_number \notin DOMAIN dict
    THEN [lots_dict |-> dict @@ (lot_number :> Len(data) + 1),
          lots_data |-> Append(data, [lot_id |-> Uuid4(used), lot_number |-> lot_number,
                                      lot_weight |-> lot_weight, status |-> "active"]),
          lot_id |-> Uuid4(used),
          drawn |-> 1]
    ELSE IF data[dict[lot_number]].lot_weight # lot_weight
    THEN [lots_dict |-> dict,
          lots_data |-> [data EXCEPT ![dict[lot_number]] =
                            [lot_id |-> Uuid4(used), lot_number |-> lot_number,
                             lot_weight |-> lot_weight, status |-> "active"]],
          lot_id |-> Uuid4(used),
          drawn |-> 1]
    ELSE [lots_dict |-> dict,
          lots_data |-> data,
          lot_id |-> data[dict[lot_number]].lot_id,
          drawn |-> 0]

(* add_lot that appends the updated lot instead of writing it in place *)
add_lot_append_on_update(dict, data, lot_number, lot_weight, used) ==
    IF lot_number \notin DOMAIN dict
    THEN [lots_dict |-> dict @@ (lot_number :> Len(data) + 1),
          lots_data |-> Append(data, [lot_id |-> Uuid4(used), lot_number |-> lot_number,
                                      lot_weight |-> lot_weight, status |-> "active"]),
          lot_id |-> Uuid4(used),
          drawn |-> 1]
    ELSE IF data[dict[lot_number]].lot_weight # lot_weight
    THEN [lots_dict |-> (lot_number :> Len(data) + 1) @@ dict,
          lots_data |-> Append(data, [data[dict[lot_number]] EXCEPT
                                         !.lot_weight = lot_weight]),
          lot_id |-> data[dict[lot_number]].lot_id,
          drawn |-> 0]
    ELSE [lots_dict |-> dict,
          lots_data |-> data,
          lot_id |-> data[dict[lot_number]].lot_id,
          drawn |-> 0]

(* add_lot(lot_number, lot_weight).  lots_dict and lots_data hold the same  *)
(* dict objects: dict[lot_number] is the position in data of the object     *)
(* both refer to.  The result is the two collections afterwards, the        *)
(* returned lot_id and the number of identifiers drawn.                     *)
add_lot(dict, data, lot_number, lot_weight, used) ==
    IF lot_number \notin DOMAIN dict
    THEN LET lot_id == Uuid4(used)
             lot == [lot_id |-> lot_id, lot_number |-> lot_number,
                     lot_weight |-> lot_weight, status |-> "active"]
         IN [lots_dict |-> dict @@ (lot_number :> Len(data) + 1),
             lots_data |-> Append(data, lot),
             lot_id |-> lot_id,
             drawn |-> 1]
    ELSE LET ref == dict[lot_number]
             existing_lot == data[ref]
             written == [data EXCEPT ![ref].lot_weight = lot_weight]
             k == FirstWithNumber(written, lot_number)
         IN [lots_dict |-> dict,
             lots_data |-> IF existing_lot.lot_weight # lot_weight
                           THEN IF k = 0 THEN written
                                ELSE [written EXCEPT ![k].lot_weight = lot_weight]
                           ELSE data,
             lot_id |-> existing_lot.lot_id,
             drawn |-> 0]

(* get_lot_id_by_lot_number *)
get_lot_id_by_lot_number(dict, data, lot_number) ==
    IF lot_number \in DOMAIN dict THEN Int_(data[dict[lot_number]].lot_id) ELSE NoInt

----------------------------------------------------------------------------
(* The workbook *)

SheetOrder == <<"CUT SHEET", "GHAT SHEET", "MM SHEET", "POLISH SHEET">>

sheet_mapping ==
    [n \in {"CUT SHEET", "GHAT SHEET", "MM SHEET", "POLISH SHEET"} |->
        CASE n = "CUT SHEET" -> "CUT" [] n = "GHAT SHEET" -> "GHAT"
          [] n = "MM SHEET" -> "MM" [] n = "POLISH SHEET" -> "POLISH"]

NumSheets == Len(SheetOrder)

(* the stage of the sheet the loop is at *)
Stage == sheet_mapping[SheetOrder[sheet_pos]]

(* cells read from the sheets: the date and lot number cells of a row ... *)
GoodDate == Str(<<"1", "4", "-", "0", "6", "-", "2", "0", "2", "5">>)
DateAndLot ==
    {<<GoodDate, Str(<<"L", "1">>)>>,
     <<GoodDate, Str(<<" ", "L", "1", " ">>)>>,
     <<GoodDate, Str(<<"l", "1">>)>>,
     <<GoodDate, NaN>>,
     <<Str(<<"x", "x">>), Str(<<"L", "1">>)>>,
     <<NaN, Str(<<"L", "1">>)>>}

(* ... and its lot weight, given pieces / weight and received pieces / weight *)
Quantities ==
    {<<IntCell(10), NaN, NaN, NaN, NaN>>,
     <<Num(1050000), Str(<<"1", "2", ".", "7">>), Num(312347), IntCell(5), Num(250000)>>}

FullRows == {k \o q : k \in DateAndLot, q \in Quantities}

ColumnCounts == {2, 4, 7}

(* df.dropna(how='all') keeps the row: some cell of it is not empty *)
KeptByDropna(r) == \E i \in 1..Len(r) : r[i].t # "nan"

(* the rows of a sheet that has n columns, after df.dropna(how='all') *)
RowsOfWidth ==
    [n \in ColumnCounts |-> {r \in {SubSeq(f, 1, n) : f \in FullRows} : KeptByDropna(r)}]
Rows(n) == RowsOfWidth[n]
AllRows == UNION {RowsOfWidth[n] : n \in ColumnCounts}
Stages == {sheet_mapping[SheetOrder[i]] : i \in 1..NumSheets}

----------------------------------------------------------------------------
(* Record Extractor *)

(* normalize_integer(row.iloc[k] if len(row) > k else None) *)
Pieces(r, k) == normalize_integer(IF Len(r) > k THEN Iloc(r, k) ELSE NaN, NoInt)

(* normalize_numeric(row.iloc[k] if len(row) > k else 0, 0) *)
Weight(r, k) == normalize_numeric(IF Len(r) > k THEN Iloc(r, k) ELSE IntCell(0), 0)

(* the extraction without the CUT rule: every stage reads the given columns *)
ExtractGivenReceived_all_stages(stage, r) ==
    [given_pieces |-> Pieces(r, 3),
     given_weight |-> Weight(r, 4),
     received_pieces |-> Pieces(r, 5),
     received_weight |-> Weight(r, 6)]

(* the stage-specific extraction of process_sheet: the four given/received fields *)
ExtractGivenReceived(stage, r) ==
    [given_pieces |-> IF stage = "CUT" THEN NoInt ELSE Pieces(r, 3),
     given_weight |-> IF stage = "CUT" THEN 0 ELSE Weight(r, 4),
     received_pieces |-> Pieces(r, 5),
     received_weight |-> Weight(r, 6)]

(* the row is skipped as empty: its first cell is blank *)
FirstCellBlank(r) == IsBlank(Iloc(r, 0))

(* row.iloc[1] or row.iloc[2] raises IndexError *)
RaisesIndexError(r) == Len(r) < 3

(* the test of the required fields with the date alone *)
RequiredFieldsOk_date_only(r) == Truthy(normalize_date(Iloc(r, 0)))

(* both required fields normalize *)
RequiredFieldsOk(r) ==
    /\ Truthy(normalize_date(Iloc(r, 0)))
    /\ Truthy(normalize_lot_number(Iloc(r, 1)))

(* what the loop body computes from a row, before it touches the results *)
RowValues(stage, r) ==
    [first_blank |-> FirstCellBlank(r),
     raises |-> RaisesIndexError(r),
     required_ok |-> ~RaisesIndexError(r) /\ RequiredFieldsOk(r),
     process_date |-> normalize_date(Iloc(r, 0)).v,
     lot_number |-> IF RaisesIndexError(r) THEN <<>>
                    ELSE normalize_lot_number(Iloc(r, 1)).v,
     lot_weight |-> IF RaisesIndexError(r) THEN 0
                    ELSE normalize_numeric(Iloc(r, 2), 0),
     fields |-> ExtractGivenReceived(stage, r)]

(* RowValues, computed once for the rows of the model *)
RowValuesOf == [s \in Stages, r \in AllRows |-> RowValues(s, r)] @@ <<>>

InRows == pc = "rows" /\ rows_read < MaxRows

(* the loop takes the next row of the sheet; the rows df.dropna removed *)
(* before it leave a gap in the index                                   *)
TakeRow(r) ==
    /\ row' = r
    /\ \E dropped \in 0..(MaxRows - rows_read - 1) :
         /\ index' = index + dropped + 1
         /\ rows_read' = rows_read + dropped + 1

(* "Skip empty rows": continue *)
SkipBlankRow ==
    /\ InRows
    /\ \E r \in Rows(ncols) :
         LET v == RowValuesOf[Stage, r]
         IN /\ v.first_blank
            /\ TakeRow(r)
    /\ UNCHANGED <<pc, sheet_names, sheet_pos, ncols, lots_dict, lots_data,
                   processing_records_data, sheets_processed, errors,
                   validation_issues, result, csv_files, next_uuid>>

(* the skip of a row without date or lot number, made to record an error *)
SkipUnnormalizedRow_recorded ==
    /\ InRows
    /\ \E r \in Rows(ncols) :
         LET v == RowValuesOf[Stage, r]
         IN /\ ~v.first_blank /\ ~v.raises /\ ~v.required_ok
            /\ TakeRow(r)
    /\ errors' = Append(errors, [kind |-> "row", row |-> index' + 2, stage |-> Stage])
    /\ UNCHANGED <<pc, sheet_names, sheet_pos, ncols, lots_dict, lots_data,
                   processing_records_data, sheets_processed,
                   validation_issues, result, csv_files, next_uuid>>

(* the skip of a row without date or lot number, made after add_lot ran *)
SkipUnnormalizedRow_after_add_lot ==
    /\ InRows
    /\ \E r \in Rows(ncols) :
         LET v == RowValuesOf[Stage, r]
             a == add_lot(lots_dict, lots_data, v.lot_number, v.lot_weight, next_uuid)
         IN /\ ~v.first_blank /\ ~v.raises /\ ~v.required_ok
            /\ TakeRow(r)
            /\ lots_dict' = a.lots_dict
            /\ lots_data' = a.lots_data
            /\ next_uuid' = next_uuid + a.drawn
    /\ UNCHANGED <<pc, sheet_names, sheet_pos, ncols,
                   processing_records_data, sheets_processed, errors,
                   validation_issues, result, csv_files>>

(* "if not process_date or not lot_number: continue" *)
SkipUnnormalizedRow ==
    /\ InRows
    /\ \E r \in Rows(ncols) :
         LET v == RowValuesOf[Stage, r]
         IN /\ ~v.first_blank /\ ~v.raises /\ ~v.required_ok
            /\ TakeRow(r)
    /\ UNCHANGED <<pc, sheet_names, sheet_pos, ncols, lots_dict, lots_data,
                   processing_records_data, sheets_processed, errors,
                   validation_issues, result, csv_files, next_uuid>>

(* the except clause of the loop body *)
RowRaises ==
    /\ InRows
    /\ \E r \in Rows(ncols) :
         LET v == RowValuesOf[Stage, r]
         IN /\ ~v.first_blank /\ v.raises
            /\ TakeRow(r)
    /\ errors' = Append(errors, [kind |-> "row", row |-> index' + 2, stage |-> Stage])
    /\ UNCHANGED <<pc, sheet_names, sheet_pos, ncols, lots_dict, lots_data,
                   processing_records_data, sheets_processed,
                   validation_issues, result, csv_files, next_uuid>>

(* a valid row: add/update the lot, append the processing record *)
EmitRecord ==
    /\ InRows
    /\ \E r \in Rows(ncols) :
         LET v == RowValuesOf[Stage, r]
             a == add_lot(lots_dict, lots_data, v.lot_number, v.lot_weight, next_uuid)
             processing_record ==
                 [record_id |-> Uuid4(next_uuid + a.drawn),
                  lot_id |-> a.lot_id,
                  lot_number |-> v.lot_number,
                  stage |-> Stage,
                  process_date |-> v.process_date,
                  given_pieces |-> v.fields.given_pieces,
                  given_weight |-> v.fields.given_weight,
                  received_pieces |-> v.fields.received_pieces,
                  received_weight |-> v.fields.received_weight]
         IN /\ ~v.first_blank /\ ~v.raises /\ v.required_ok
            /\ TakeRow(r)
            /\ lots_dict' = a.lots_dict
            /\ lots_data' = a.lots_data
            /\ processing_records_data' =
                   Append(processing_records_data, processing_record)
            /\ next_uuid' = next_uuid + a.drawn + 1
    /\ UNCHANGED <<pc, sheet_names, sheet_pos, ncols, sheets_processed, errors,
                   validation_issues, result, csv_files>>

AfterSheet(pos) == IF pos > NumSheets THEN "validate" ELSE "sheet"

(* the rows of the sheet are exhausted: process_sheet returns *)
EndSheet ==
    /\ pc = "rows"
    /\ sheets_processed' = Append(sheets_processed, Stage)
    /\ sheet_pos' = sheet_pos + 1
    /\ pc' = AfterSheet(sheet_pos + 1)
    /\ ncols' = 0 /\ index' = -1 /\ row' = <<>>
    /\ UNCHANGED <<sheet_names, lots_dict, lots_data, processing_records_data,
                   errors, validation_issues, result, csv_files, next_uuid, rows_read>>

----------------------------------------------------------------------------
(* Integrity Validator *)

LotIdsInLots(data) == {data[i].lot_id : i \in 1..Len(data)}
LotIdsInProcessing(records) == {records[i].lot_id : i \in 1..Len(records)}

(* validate_data_integrity that reports the orphans and still returns True *)
validate_data_integrity_lenient(data, records) ==
    [ok |-> TRUE,
     issues |-> IF LotIdsInProcessing(records) \ LotIdsInLots(data) # {}
                THEN <<[kind |-> "orphaned",
                        count |-> Cardinality(LotIdsInProcessing(records)
                                              \ LotIdsInLots(data))]>>
                ELSE IF LotIdsInLots(data) \ LotIdsInProcessing(records) # {}
                THEN <<[kind |-> "unused",
                        count |-> Cardinality(LotIdsInLots(data)
                                              \ LotIdsInProcessing(records))]>>
                ELSE <<>>]

(* validate_data_integrity: the returned value and the issues it appends *)
validate_data_integrity(data, records) ==
    LET orphaned_lot_ids == LotIdsInProcessing(records) \ LotIdsInLots(data)
        unused_lot_ids == LotIdsInLots(data) \ LotIdsInProcessing(records)
    IN IF orphaned_lot_ids # {}
       THEN [ok |-> FALSE,
             issues |-> <<[kind |-> "orphaned", count |-> Cardinality(orphaned_lot_ids)]>>]
       ELSE [ok |-> TRUE,
             issues |-> IF unused_lot_ids # {}
                        THEN <<[kind |-> "unused", count |-> Cardinality(unused_lot_ids)]>>
                        ELSE <<>>]

----------------------------------------------------------------------------
(* process_excel_file and main *)

FatalError == [kind |-> "fatal", row |-> 0, stage |-> "none"]

(* the except clause of process_excel_file *)
Fatal ==
    /\ errors' = Append(errors, FatalError)
    /\ result' = "False"
    /\ pc' = "returned"

(* pd.ExcelFile(uploaded_file) reads the workbook *)
OpenWorkbook ==
    /\ pc = "open"
    /\ \E names \in SUBSET {SheetOrder[i] : i \in 1..NumSheets} : sheet_names' = names
    /\ sheet_pos' = 1
    /\ pc' = "sheet"
    /\ UNCHANGED <<ncols, index, row, lots_dict, lots_data, processing_records_data,
                   sheets_processed, errors, validation_issues, result, csv_files,
                   next_uuid, rows_read>>

(* pd.ExcelFile(uploaded_file) raises: the workbook is unreadable *)
OpenWorkbookFails ==
    /\ pc = "open"
    /\ Fatal
    /\ UNCHANGED <<sheet_names, sheet_pos, ncols, index, row, lots_dict, lots_data,
                   processing_records_data, sheets_processed, validation_issues,
                   csv_files, next_uuid, rows_read>>

(* the sheet is not in the workbook: a warning, the loop goes on *)
SheetNotFound ==
    /\ pc = "sheet"
    /\ SheetOrder[sheet_pos] \notin sheet_names
    /\ sheet_pos' = sheet_pos + 1
    /\ pc' = AfterSheet(sheet_pos + 1)
    /\ UNCHANGED <<sheet_names, ncols, index, row, lots_dict, lots_data,
                   processing_records_data, sheets_processed, errors,
                   validation_issues, result, csv_files, next_uuid, rows_read>>

(* pd.read_excel reads the sheet; process_sheet starts on it *)
ReadSheet ==
    /\ pc = "sheet"
    /\ SheetOrder[sheet_pos] \in sheet_names
    /\ \E n \in ColumnCounts : ncols' = n
    /\ index' = -1
    /\ row' = <<>>
    /\ pc' = "rows"
    /\ UNCHANGED <<sheet_names, sheet_pos, lots_dict, lots_data,
                   processing_records_data, sheets_processed, errors,
                   validation_issues, result, csv_files, next_uuid, rows_read>>

(* a failed pd.read_excel that is recorded and passed over: the loop goes on *)
ReadSheetFails_isolated ==
    /\ pc = "sheet"
    /\ SheetOrder[sheet_pos] \in sheet_names
    /\ errors' = Append(errors, FatalError)
    /\ sheet_pos' = sheet_pos + 1
    /\ pc' = AfterSheet(sheet_pos + 1)
    /\ UNCHANGED <<sheet_names, ncols, index, row, lots_dict, lots_data,
                   processing_records_data, sheets_processed, validation_issues,
                   result, csv_files, next_uuid, rows_read>>

(* pd.read_excel raises on a sheet the workbook has *)
ReadSheetFails ==
    /\ pc = "sheet"
    /\ SheetOrder[sheet_pos] \in sheet_names
    /\ Fatal
    /\ UNCHANGED <<sheet_names, sheet_pos, ncols, index, row, lots_dict, lots_data,
                   processing_records_data, sheets_processed, validation_issues,
                   csv_files, next_uuid, rows_read>>

(* "Validate data integrity" and the return of process_excel_file *)
Validate ==
    /\ pc = "validate"
    /\ LET v == validate_data_integrity(lots_data, processing_records_data)
       IN /\ validation_issues' = validation_issues \o v.issues
          /\ result' = IF v.ok THEN "True" ELSE "False"
    /\ pc' = "returned"
    /\ UNCHANGED <<sheet_names, sheet_pos, ncols, index, row, lots_dict, lots_data,
                   processing_records_data, sheets_processed, errors, csv_files,
                   next_uuid, rows_read>>

StageFile(stage) ==
    CASE stage = "CUT" -> "cut_records.csv" [] stage = "GHAT" -> "ghat_records.csv"
      [] stage = "MM" -> "mm_records.csv" [] stage = "POLISH" -> "polish_records.csv"

(* generate_csv_files: the names of the files it renders *)
generate_csv_files(data, records, processed) ==
    (IF data # <<>> THEN {"lots.csv"} ELSE {})
    \cup (IF records # <<>>
          THEN {"processing_records.csv"}
               \cup {StageFile(processed[i]) : i \in 1..Len(processed)}
          ELSE {})

(* main: the CSV files are generated only if process_excel_file returned True *)
MainFinish ==
    /\ pc = "returned"
    /\ csv_files' = IF result = "True"
                    THEN generate_csv_files(lots_data, processing_records_data,
                                            sheets_processed)
                    ELSE csv_files
    /\ pc' = "exit"
    /\ UNCHANGED <<sheet_names, sheet_pos, ncols, index, row, lots_dict, lots_data,
                   processing_records_data, sheets_processed, errors,
                   validation_issues, result, next_uuid, rows_read>>

----------------------------------------------------------------------------
(* The run of one uploaded workbook *)

Init ==
    /\ pc = "open"
    /\ sheet_names = {}
    /\ sheet_pos = 0
    /\ ncols = 0
    /\ index = -1
    /\ row = <<>>
    /\ lots_dict = <<>>
    /\ lots_data = <<>>
    /\ processing_records_data = <<>>
    /\ sheets_processed = <<>>
    /\ errors = <<>>
    /\ validation_issues = <<>>
    /\ result = "none"
    /\ csv_files = {}
    /\ next_uuid = 0
    /\ rows_read = 0

Next ==
    \/ OpenWorkbook
    \/ OpenWorkbookFails
    \/ SheetNotFound
    \/ ReadSheet
    \/ ReadSheetFails
    \/ SkipBlankRow
    \/ SkipUnnormalizedRow
    \/ RowRaises
    \/ EmitRecord
    \/ EndSheet
    \/ Validate
    \/ MainFinish

Spec == Init /\ [][Next]_vars

----------------------------------------------------------------------------
(* Properties *)

Records == processing_records_data
LastRecord(records) == records[Len(records)]

(* the step appended a processing record *)
Emitted == Len(processing_records_data') = Len(processing_records_data) + 1

(* the lots of the list that carry this lot_id *)
LotsWithId(id) == {j \in 1..Len(lots_data) : lots_data[j].lot_id = id}

(* C1: every processing record's lot_id is the lot_id of exactly one lot of *)
(* lots_data, and that lot has the record's lot_number                       *)
C1_ReferentialClosure ==
    \A i \in 1..Len(Records) :
        /\ Cardinality(LotsWithId(Records[i].lot_id)) = 1
        /\ \A j \in LotsWithId(Records[i].lot_id) :
               lots_data[j].lot_number = Records[i].lot_number

(* a finished run with records of two lots, each resolved *)
C1_Witness ==
    /\ pc = "exit"
    /\ Len(Records) = 2
    /\ Records[1].lot_id # Records[2].lot_id
    /\ Len(lots_data) = 2

(* C2: no two lots of lots_data have the same lot_number, and the records *)
(* of one lot_number all carry one lot_id                                   *)
C2_LotUniqueness ==
    /\ \A i, j \in 1..Len(lots_data) :
           lots_data[i].lot_number = lots_data[j].lot_number => i = j
    /\ \A i, j \in 1..Len(Records) :
           Records[i].lot_number = Records[j].lot_number
               => Records[i].lot_id = Records[j].lot_id

(* one lot number seen in two sheets: still one lot *)
C2_Witness ==
    /\ Len(Records) = 2
    /\ Records[1].lot_number = Records[2].lot_number
    /\ Records[1].stage # Records[2].stage
    /\ Len(lots_data) = 1

(* the raw lot number cell of the row the loop took, as text *)
RawLot(r) == PyStr(Iloc(r, 1))

(* C3, as stated: a row whose raw lot number differs from an earlier row's *)
(* only in letter case or surrounding whitespace gets that row's lot_id    *)
C3_CaseAndWhitespaceNormalized ==
    [][Emitted =>
         \A i \in 1..Len(Records) :
             Lower(Strip(Records[i].lot_number)) = Lower(Strip(RawLot(row')))
                 => LastRecord(processing_records_data').lot_id = Records[i].lot_id]_vars

(* C3, amended: the lot number of a record is its raw lot number trimmed;  *)
(* a row gets the lot_id of an earlier row exactly when the two raw lot    *)
(* numbers are equal once trimmed (letter case is kept), and then no lot   *)
(* is created                                                              *)
C3_WhitespaceNormalized ==
    [][Emitted =>
         /\ LastRecord(processing_records_data').lot_number = Strip(RawLot(row'))
         /\ \A i \in 1..Len(Records) :
                /\ Strip(Records[i].lot_number) = Strip(RawLot(row'))
                       <=> LastRecord(processing_records_data').lot_id = Records[i].lot_id
                /\ Strip(Records[i].lot_number) = Strip(RawLot(row'))
                       => Len(lots_data') = Len(lots_data)]_vars

(* a row whose raw lot number has surrounding whitespace resolved to the lot *)
(* of an earlier row                                                         *)
C3_Witness ==
    /\ pc = "rows"
    /\ Len(Records) = 2
    /\ RawLot(row) # Strip(RawLot(row))
    /\ Records[2].lot_number = Strip(RawLot(row))
    /\ Records[1].lot_id = Records[2].lot_id
    /\ Len(lots_data) = 1

(* the lot weight add_lot is called with for row r *)
RowWeight(r) == normalize_numeric(Iloc(r, 2), 0)

(* C4: after each add_lot(lot_number, w) the lot of that lot_number has    *)
(* weight w, whatever it had before; the other lots keep theirs; no error  *)
(* is recorded; and a step that emits no record changes no lot             *)
C4_LastWriteWins ==
    [][/\ Emitted =>
            /\ \E j \in 1..Len(lots_data') :
                   lots_data'[j].lot_number = LastRecord(processing_records_data').lot_number
            /\ \A j \in 1..Len(lots_data') :
                   IF lots_data'[j].lot_number = LastRecord(processing_records_data').lot_number
                   THEN lots_data'[j].lot_weight = RowWeight(row')
                   ELSE j <= Len(lots_data) /\ lots_data'[j] = lots_data[j]
            /\ errors' = errors
       /\ ~Emitted => lots_data' = lots_data]_vars

(* a lot seen in two sheets holds the weight of the second sighting *)
C4_Witness ==
    /\ pc = "rows"
    /\ Len(Records) = 2
    /\ Records[1].stage # Records[2].stage
    /\ Records[1].lot_id = Records[2].lot_id
    /\ RowWeight(row) = 1050000
    /\ lots_data[1].lot_weight = 1050000
    /\ errors = <<>>

(* C5: a lot, once created, stays at its place in lots_data with its       *)
(* lot_id and lot_number; lots_dict keeps resolving its lot_number to that *)
(* lot_id; and a later add_lot for that lot_number returns that lot_id     *)
C5_MappingOnlyGrows ==
    [][/\ \A i \in 1..Len(lots_data) :
              /\ i <= Len(lots_data')
              /\ lots_data'[i].lot_id = lots_data[i].lot_id
              /\ lots_data'[i].lot_number = lots_data[i].lot_number
       /\ \A n \in DOMAIN lots_dict :
              /\ n \in DOMAIN lots_dict'
              /\ get_lot_id_by_lot_number(lots_dict', lots_data', n)
                     = get_lot_id_by_lot_number(lots_dict, lots_data, n)
              /\ (Emitted /\ LastRecord(processing_records_data').lot_number = n)
                     => Int_(LastRecord(processing_records_data').lot_id)
                            = get_lot_id_by_lot_number(lots_dict, lots_data, n)]_vars

(* a lot created in one sheet, resolved again in a later one with another weight *)
C5_Witness ==
    /\ pc = "exit"
    /\ Len(Records) = 2
    /\ Len(lots_data) = 1
    /\ Records[1].stage = "CUT" /\ Records[2].stage = "POLISH"
    /\ Records[2].lot_id = lots_data[1].lot_id
    /\ Records[1].lot_id = lots_data[1].lot_id

(* C6, as stated: once a processing record exists, no lot is created and no *)
(* lot changes                                                              *)
C6_NoLotChangeAfterFirstRecord ==
    [][Records # <<>> => lots_data' = lots_data]_vars

(* C6, amended: lots are created and their weights reconciled in the row   *)
(* steps that emit the records, also after the first record: a step that   *)
(* changes lots_data appends a record, and either appends one lot with a   *)
(* new lot_number, the record's, or changes only the lot_weight of the     *)
(* record's lot                                                            *)
C6_LotsChangeWithRecords ==
    [][lots_data' # lots_data =>
         /\ Emitted
         /\ \/ /\ Len(lots_data') = Len(lots_data) + 1
               /\ SubSeq(lots_data', 1, Len(lots_data)) = lots_data
               /\ LastRecord(lots_data').lot_id = LastRecord(processing_records_data').lot_id
               /\ \A j \in 1..Len(lots_data) :
                      lots_data[j].lot_number # LastRecord(lots_data').lot_number
            \/ /\ Len(lots_data') = Len(lots_data)
               /\ \A j \in 1..Len(lots_data) :
                      \/ lots_data'[j] = lots_data[j]
                      \/ /\ lots_data[j].lot_id = LastRecord(processing_records_data').lot_id
                         /\ lots_data'[j] =
                                [lots_data[j] EXCEPT !.lot_weight = RowWeight(row')]]_vars

(* a second lot, created when a record already existed *)
C6_Witness ==
    /\ Len(Records) = 2
    /\ Len(lots_data) = 2
    /\ lots_data[2].lot_id = Records[2].lot_id
    /\ lots_data[1].lot_id = Records[1].lot_id

(* the loop body ran on a row *)
RowStep == pc = "rows" /\ pc' = "rows" /\ index' > index

(* a row with a non-blank first cell whose date or lot number does not      *)
(* normalize, and with other non-blank content                              *)
SoftRow(r) ==
    /\ ~FirstCellBlank(r)
    /\ ~RaisesIndexError(r)
    /\ ~RequiredFieldsOk(r)
    /\ \E i \in 3..Len(r) : ~IsBlank(r[i])

----------------------------------------------------------------------------
(* The validator on its own: validate_data_integrity and the rest of the  *)
(* run, from any two collections                                           *)

SeqsUpTo(S, n) == UNION {[1..k -> S] : k \in 0..n}

CheckedLot(id) ==
    [lot_id |-> id, lot_number |-> <<"L", DigitChar(id)>>,
     lot_weight |-> 10 * Scale, status |-> "active"]

CheckedRecord(id) ==
    [record_id |-> MaxLotId + id, lot_id |-> id, lot_number |-> <<"L", DigitChar(id)>>,
     stage |-> "CUT", process_date |-> normalize_date(GoodDate).v,
     given_pieces |-> NoInt, given_weight |-> 0,
     received_pieces |-> NoInt, received_weight |-> 0]

InitValidate ==
    /\ pc = "validate"
    /\ sheet_names = {"CUT SHEET"}
    /\ sheet_pos = NumSheets + 1
    /\ ncols = 0
    /\ index = -1
    /\ row = <<>>
    /\ \E ids \in SeqsUpTo(1..MaxLotId, MaxChecked) :
         /\ lots_data = [i \in 1..Len(ids) |-> CheckedLot(ids[i])]
         /\ lots_dict = [n \in {CheckedLot(ids[i]).lot_number : i \in 1..Len(ids)} |->
                            SetMin({i \in 1..Len(ids) : CheckedLot(ids[i]).lot_number = n})]
    /\ \E ids \in SeqsUpTo(1..MaxLotId, MaxChecked) :
         processing_records_data = [i \in 1..Len(ids) |-> CheckedRecord(ids[i])]
    /\ sheets_processed = <<"CUT">>
    /\ errors = <<>>
    /\ validation_issues = <<>>
    /\ result = "none"
    /\ csv_files = {}
    /\ next_uuid = 2 * MaxLotId
    /\ rows_read = 0

NextValidate == Validate \/ MainFinish

SpecValidate == InitValidate /\ [][NextValidate]_vars

----------------------------------------------------------------------------

StagePos(stage) == CHOOSE i \in 1..NumSheets : sheet_mapping[SheetOrder[i]] = stage

(* the run ended in the except clause of process_excel_file at a sheet *)
ReadFailed == result = "False" /\ sheet_pos \in 1..NumSheets

(* C8, as stated: when reading a sheet failed, the sheets after it that the *)
(* workbook has were still processed                                        *)
C8_SiblingsProceed ==
    (pc = "exit" /\ ReadFailed) =>
        \A j \in (sheet_pos + 1)..NumSheets :
            SheetOrder[j] \in sheet_names
                => \E k \in 1..Len(sheets_processed) :
                       sheets_processed[k] = sheet_mapping[SheetOrder[j]]

(* C8, amended: a failure reading a sheet is recorded as a fatal error and  *)
(* ends the run as failed with no CSV files: the failing sheet and the      *)
(* sheets after it contribute no records and are not among                  *)
(* sheets_processed; only the sheets before it have contributed             *)
C8_ReadFailureEndsRun ==
    (\E i \in 1..Len(errors) : errors[i] = FatalError) =>
        /\ pc \in {"returned", "exit"}
        /\ result = "False"
        /\ LastRecord(errors) = FatalError
        /\ csv_files = {}
        /\ \A i \in 1..Len(Records) : StagePos(Records[i].stage) < sheet_pos
        /\ \A k \in 1..Len(sheets_processed) : StagePos(sheets_processed[k]) < sheet_pos

(* the CUT sheet gave a record, reading the GHAT sheet failed, and the     *)
(* workbook has a later sheet that was never processed                     *)
C8_Witness ==
    /\ pc = "exit"
    /\ ReadFailed
    /\ sheet_pos = 2
    /\ Len(Records) = 1
    /\ \E j \in 3..NumSheets : SheetOrder[j] \in sheet_names
    /\ sheets_processed = <<"CUT">>

Orphaned ==
    \E i \in 1..Len(Records) :
        \A j \in 1..Len(lots_data) : lots_data[j].lot_id # Records[i].lot_id

Unused ==
    \E j \in 1..Len(lots_data) :
        \A i \in 1..Len(Records) : Records[i].lot_id # lots_data[j].lot_id

(* C9: validation fails exactly when a record's lot_id is the lot_id of no *)
(* lot; the run is then reported failed and no CSV file is generated; an   *)
(* unreferenced lot only adds an issue and the run succeeds; validation     *)
(* changes neither collection                                               *)
C9_ValidatorOutcome ==
    [][/\ pc = "validate" =>
            /\ result' = (IF Orphaned THEN "False" ELSE "True")
            /\ Orphaned => Len(validation_issues') = Len(validation_issues) + 1
            /\ (~Orphaned /\ Unused) =>
                   /\ Len(validation_issues') = Len(validation_issues) + 1
                   /\ LastRecord(validation_issues').kind = "unused"
            /\ (~Orphaned /\ ~Unused) => validation_issues' = validation_issues
            /\ lots_data' = lots_data
            /\ processing_records_data' = processing_records_data
       /\ pc = "returned" =>
            /\ result = "False" => csv_files' = {}
            /\ (result = "True" /\ lots_data # <<>>) => "lots.csv" \in csv_files']_vars

(* a run that ended failed on an orphaned record, with no CSV file *)
C9_Witness ==
    /\ pc = "exit"
    /\ Orphaned
    /\ result = "False"
    /\ csv_files = {}
    /\ Len(validation_issues) = 1

(* C10: a CUT record has no given_pieces and given_weight zero whatever the *)
(* row holds in columns 3 and 4; a record of another stage has the          *)
(* normalized values of columns 3 and 4, absent / zero when the row is      *)
(* shorter; the records emitted before stay as they are                     *)
C10_StageColumnRule ==
    [][Emitted =>
         /\ SubSeq(processing_records_data', 1, Len(Records)) = Records
         /\ LastRecord(processing_records_data').stage = Stage
         /\ Stage = "CUT" =>
                /\ LastRecord(processing_records_data').given_pieces = NoInt
                /\ LastRecord(processing_records_data').given_weight = 0
         /\ Stage # "CUT" =>
                /\ LastRecord(processing_records_data').given_pieces =
                       (IF Len(row') > 3 THEN normalize_integer(Iloc(row', 3), NoInt)
                        ELSE NoInt)
                /\ LastRecord(processing_records_data').given_weight =
                       (IF Len(row') > 4 THEN normalize_numeric(Iloc(row', 4), 0)
                        ELSE 0)]_vars

(* a CUT row with "12.7" in column 3 gave a record without given_pieces;   *)
(* a four-column GHAT row with "12.7" in column 3 gave given_pieces 12 and *)
(* given_weight zero                                                       *)
C10_Witness ==
    /\ pc = "rows"
    /\ Len(Records) = 2
    /\ Records[1].stage = "CUT"
    /\ Records[1].received_pieces = Int_(5)
    /\ Records[1].given_pieces = NoInt
    /\ Records[1].given_weight = 0
    /\ Records[2].stage = "GHAT"
    /\ Len(row) = 4
    /\ Records[2].given_pieces = Int_(12)
    /\ Records[2].given_weight = 0

----------------------------------------------------------------------------

(* the first cell of the row is not blank, and its date and its lot number *)
(* both normalize to a value                                                *)
Normalizes(r) ==
    /\ ~IsBlank(Iloc(r, 0))
    /\ Truthy(normalize_date(Iloc(r, 0)))
    /\ Len(r) > 1
    /\ Truthy(normalize_lot_number(Iloc(r, 1)))

(* the step left the records and the lots as they were *)
NothingKept ==
    /\ processing_records_data' = processing_records_data
    /\ lots_data' = lots_data
    /\ lots_dict' = lots_dict

(* C11, as stated: a row gives exactly one processing record if and only   *)
(* if its first cell is not blank and its date and lot number normalize;   *)
(* any other row gives no record, creates no lot and changes no lot        *)
C11_RecordIffNormalized ==
    [][RowStep =>
         /\ Normalizes(row') => Emitted
         /\ ~Normalizes(row') => NothingKept]_vars

(* C11, amended: a row gives exactly one processing record, with its       *)
(* normalized date and lot number, if and only if its first cell is not    *)
(* blank, its date and lot number normalize, and the row has the lot       *)
(* weight column (at least three columns); any other row gives no record,  *)
(* creates no lot and changes no lot; a row of a sheet with fewer than     *)
(* three columns whose first cell is not blank appends an entry to errors  *)
(* instead, even when its date and lot number normalize                    *)
C11_RecordIffNormalizedAndRead ==
    [][RowStep =>
         /\ (Normalizes(row') /\ Len(row') >= 3) =>
                /\ Emitted
                /\ SubSeq(processing_records_data', 1, Len(Records)) = Records
                /\ LastRecord(processing_records_data').process_date =
                       normalize_date(Iloc(row', 0)).v
                /\ LastRecord(processing_records_data').lot_number =
                       normalize_lot_number(Iloc(row', 1)).v
                /\ errors' = errors
         /\ ~(Normalizes(row') /\ Len(row') >= 3) => NothingKept
         /\ (~IsBlank(Iloc(row', 0)) /\ Len(row') < 3) =>
                errors' = Append(errors, [kind |-> "row", row |-> index' + 2,
                                          stage |-> Stage])]_vars

(* after a row of the CUT sheet gave a record, a row of a two-column sheet *)
(* with a date and a lot number that normalize gave an error and no record *)
C11_Witness ==
    /\ pc = "rows"
    /\ Len(row) = 2
    /\ Normalizes(row)
    /\ Len(Records) = 1
    /\ Records[1].stage = "CUT"
    /\ Len(errors) = 1
    /\ errors[1].kind = "row"

(* C12: in every state of a run every lot of lots_data is referenced by a  *)
(* processing record, a lot is created only by a step that appends a       *)
(* record with its lot_id, and the validator never reports unused lots     *)
C12_EveryLotReferenced ==
    /\ [](/\ ~Unused
          /\ \A k \in 1..Len(validation_issues) :
                 validation_issues[k].kind # "unused")
    /\ [][Len(lots_data') # Len(lots_data) =>
             /\ Len(lots_data') = Len(lots_data) + 1
             /\ Emitted
             /\ LastRecord(processing_records_data').lot_id =
                    LastRecord(lots_data').lot_id]_vars

(* a run with one lot, created by its first row and seen again by a later *)
(* one, was validated without an issue and its files were written          *)
C12_Witness ==
    /\ pc = "exit"
    /\ result = "True"
    /\ Len(lots_data) = 1
    /\ Len(Records) = 2
    /\ validation_issues = <<>>
    /\ "lots.csv" \in csv_files

====
